---- MODULE Spec2Model ----
(***************************************************************************)
(* A model of the PQC benchmark suite: BenchmarkRunner (src/src/runner.py), *)
(* SystemMonitor (src/src/monitor.py) and the algorithm adapter            *)
(* (src/src/algorithms.py).                                                *)
(*                                                                         *)
(*   Spec        BenchmarkRunner.run with the monitor's sampling thread,    *)
(*               provider failures and a KeyboardInterrupt                  *)
(*   SpecMonitor one SystemMonitor.start() followed by one stop()           *)
(*   SpecMonitorFair  the same, the sampling thread scheduled fairly        *)
(*   SpecVerify  Signature.verify as a function of its inputs               *)
(*   SpecLoad    get_algorithm as a function of its arguments               *)
(*   SpecStats   _calculate_stats as a function of the latency list         *)
(*   SpecSummary SystemMonitor.get_summary as a function of the buffer      *)
(*   SpecConfig  BenchmarkRunner.run on a configuration document with a     *)
(*               missing or malformed field                                 *)
(***************************************************************************)
EXTENDS Integers, Sequences, FiniteSets, TLC

(***************************************************************************)
(* Bounds of the model.                                                    *)
(***************************************************************************)
\* configured KEM entries: 0..MaxKem
MaxKem == 1
\* configured signature entries: 0..MaxSign
MaxSign == 1
\* configured payload/message sizes per entry: none or MaxSizes
MaxSizes == 2
\* timed trials per operation (runner.py:48 fixes 1000; scaled down)
Iterations == 2
\* execution.warmup_iterations
MaxWarmup == 2
\* execution.long_run_duration_seconds, in clock ticks
MaxRunDuration == 2
\* clock ticks a provider call in the stability loop takes
OpTime == 1
\* samples the monitor takes before it sleeps until stop() is signalled
MaxSamples == 2
\* failures injected in one behaviour (provider, psutil, file system)
MaxFaults == 1
\* KeyboardInterrupts delivered to the main thread in one behaviour
MaxInterrupts == 1

(***************************************************************************)
(* State.                                                                  *)
(***************************************************************************)
VARIABLES
    \* ---- the configuration document and the environment (fixed by Init)
    config,         \* self.config: kem/sign entries, warmup, duration
    installed,      \* module names that importlib can import
    \* ---- BenchmarkRunner.run (main thread)
    pc,             \* position of the main thread
    idx,            \* index of the entry the for loops of run are at
    alg,            \* the handle of the entry being benchmarked
    w,              \* warmup keygen calls made for alg
    trial,          \* timed trials completed in the current loop
    sizeIdx,        \* index of the size the size loop is at
    latA,           \* latencies / enc_latencies / sign_latencies
    latB,           \* dec_latencies / verify_latencies
    results,        \* results of run_micro_benchmarks
    full_results,   \* full_results of run
    res_file,       \* the result document on disk
    all_algs,       \* all_algs: the pool of the stability test
    hidx,           \* index of the handle the stability pass is at
    cstep,          \* operation of the handle's cycle that comes next
    now,            \* wall clock, time.time()
    end_time,       \* end_time of run_long_stability_test
    pass_start,     \* clock readings at which a pass was started
    \* ---- SystemMonitor
    output_file,    \* self.output_file is set
    stop_event,     \* self.stop_event
    thread,         \* self.thread: "none" or "started"
    mpc,            \* position of the sampling thread
    data_points,    \* self.data_points
    monitor_file,   \* the resource-sample document on disk
    saves,          \* successful writes of the resource-sample document
    \* ---- history
    log,            \* phases entered, in order
    faults,         \* failures injected so far
    interrupts,     \* KeyboardInterrupts delivered so far
    load_failed,    \* names whose get_algorithm raised
    micro_failed,   \* names whose micro-benchmark phase raised
    \* ---- the objects the provider calls are made with
    constructed,    \* the handles constructed so far, in order
    keygens,        \* keygen calls made by run_micro_benchmarks so far
    keypair,        \* pk, sk: the keygen call that returned them
    message,        \* message of run_micro_benchmarks
    ct,             \* ct / sig of the trial
    call,           \* the last encaps/decaps/sign/verify call: the handle
                    \* it was made on (by name) and its arguments
    \* ---- one call of a function (Signature.verify, get_algorithm,
    \*      _calculate_stats, get_summary)
    vin,            \* inputs of the call
    vout            \* its outcome

cfgVars == <<config, installed>>
runVars == <<pc, idx, alg, w, trial, sizeIdx, latA, latB, results,
             full_results, res_file>>
stabVars == <<all_algs, hidx, cstep, now, end_time, pass_start>>
monVars == <<output_file, stop_event, thread, mpc, data_points,
             monitor_file, saves>>
histVars == <<log, faults, interrupts, load_failed, micro_failed>>
verVars == <<vin, vout>>
useVars == <<constructed, keygens, keypair, message, ct, call>>
vars == <<cfgVars, runVars, stabVars, monVars, histVars, verVars, useVars>>

\* None
None == "None"
\* the empty dict
EmptyDict == [k \in {} |-> None]
\* a time not stamped yet
NoTime == 0 - 1
\* a file: whether it was written, and what was written to it last
NoFile(empty) == [written |-> FALSE, content |-> empty]
FileOf(content) == [written |-> TRUE, content |-> content]
\* full_results before line 177 binds it
NoResults ==
    [metadata |-> [start_time |-> NoTime, end_time |-> NoTime],
     micro_benchmarks |-> EmptyDict]

(***************************************************************************)
(* Numbers                                                                 *)
(***************************************************************************)
\* a non-negative rational is <<numerator, denominator>> in
\* lowest terms
RECURSIVE GCD(_, _)
GCD(a, b) == IF b = 0 THEN a ELSE GCD(b, a % b)
Rat(n, d) == LET g == GCD(n, d) IN <<n \div g, d \div g>>
Zero == <<0, 1>>
\* a <= b, a / b
RLe(a, b) == a[1] * b[2] <= b[1] * a[2]
RDiv(a, b) == LET p == Rat(a[1], b[1])
                  q == Rat(b[2], a[2])
              IN  Rat(p[1] * q[1], p[2] * q[2])

\* sum(xs[lo..hi]) and sum(xs)
RECURSIVE SumRange(_, _, _)
SumRange(xs, lo, hi) ==
    IF lo > hi THEN 0
    ELSE IF lo = hi THEN xs[lo]
    ELSE LET mid == (lo + hi) \div 2
         IN  SumRange(xs, lo, mid) + SumRange(xs, mid + 1, hi)
SumSeq(xs) == SumRange(xs, 1, Len(xs))

\* the greatest common divisor of xs[lo..hi] and of the elements of xs
RECURSIVE GCDRange(_, _, _)
GCDRange(xs, lo, hi) ==
    IF lo > hi THEN 0
    ELSE IF lo = hi THEN xs[lo]
    ELSE LET mid == (lo + hi) \div 2
         IN  GCD(GCDRange(xs, lo, mid), GCDRange(xs, mid + 1, hi))
GCDSeq(xs) == GCDRange(xs, 1, Len(xs))

\* the k-th smallest element of xs: sorted(xs)[k - 1]
Kth(xs, k) ==
    CHOOSE v \in {xs[i] : i \in DOMAIN xs} :
        /\ Cardinality({i \in DOMAIN xs : xs[i] < v}) < k
        /\ k <= Cardinality({i \in DOMAIN xs : xs[i] <= v})

(***************************************************************************)
(* SystemMonitor                                                           *)
(***************************************************************************)
\* the states of section 4.3, read off the fields of the object
MonitorState ==
    IF thread = "none" THEN "Idle"
    ELSE IF ~stop_event THEN "Running" ELSE "Stopped"

\* __init__
MonitorInit(out) ==
    /\ output_file = out
    /\ stop_event = FALSE
    /\ thread = "none"
    /\ mpc = "unborn"
    /\ data_points = <<>>
    /\ monitor_file = NoFile(<<>>)
    /\ saves = 0

\* start(): clears the event, creates and starts the thread
SM_start ==
    /\ stop_event' = FALSE
    /\ thread' = "started"
    /\ mpc' = "check"
    /\ UNCHANGED <<output_file, data_points, monitor_file, saves>>

\* stop(), line 29: self.stop_event.set()
SM_stop_set ==
    /\ stop_event' = TRUE
    /\ UNCHANGED <<output_file, thread, mpc, data_points, monitor_file, saves>>

\* the sampling thread is no longer running
ThreadTerminated == mpc \in {"exited", "died"}

\* stop() without the wait for the thread
SM_stop_join_NoWait ==
    UNCHANGED monVars

\* stop(), lines 30-31: if self.thread: self.thread.join()
SM_stop_join ==
    /\ thread = "started" => ThreadTerminated
    /\ UNCHANGED monVars

\* outcomes of writing a file
IoOutcomes == {"ok"} \cup (IF faults < MaxFaults THEN {"oserror"} ELSE {})

\* _save_data: the write, or the logged failure of it
SaveData(io) ==
    /\ monitor_file' = IF io = "ok" THEN FileOf(data_points) ELSE monitor_file
    /\ saves' = IF io = "ok" THEN saves + 1 ELSE saves

\* stop(), lines 33-34: if self.output_file: self._save_data()
SM_stop_save(io) ==
    /\ IF output_file THEN SaveData(io)
                      ELSE io = "ok" /\ UNCHANGED <<monitor_file, saves>>
    /\ UNCHANGED <<output_file, stop_event, thread, mpc, data_points>>

\* the loop as while True: the signal is not looked at
MonCheck_IgnoresSignal ==
    /\ mpc = "check"
    /\ mpc' = "sample"
    /\ UNCHANGED <<cfgVars, runVars, stabVars, verVars, histVars, useVars>>
    /\ UNCHANGED <<output_file, stop_event, thread, data_points,
                   monitor_file, saves>>

\* _monitor_loop, line 38: while not self.stop_event.is_set()
MonCheck ==
    /\ mpc = "check"
    /\ mpc' = IF stop_event THEN "exited" ELSE "sample"
    /\ UNCHANGED <<cfgVars, runVars, stabVars, verVars, histVars, useVars>>
    /\ UNCHANGED <<output_file, stop_event, thread, data_points,
                   monitor_file, saves>>

\* what the reads of one tick can do: all succeed, or one of them raises
TickOutcomes ==
    {"sampled"} \cup
    (IF faults < MaxFaults
     THEN {"cpu_percent_raises", "memory_info_no_such_process",
           "memory_info_raises", "system_cpu_raises", "cpu_freq_raises"}
     ELSE {})

\* the position of the thread after a tick of that outcome: only the
\* NoSuchProcess of memory_info is caught (break); the failure of cpu_freq
\* is swallowed; every other failure leaves _monitor_loop as an exception
AfterTick(o) ==
    CASE o \in {"sampled", "cpu_freq_raises"} -> "sleep"
      [] o = "memory_info_no_such_process" -> "exited"
      [] OTHER -> "died"

\* the sample appended by a tick; its timestamp is kept as the tick's number
Metrics(o) ==
    [timestamp |-> Len(data_points) + 1,
     cpu_freq_current |-> (o = "sampled")]

\* _monitor_loop, lines 39-71: one tick
MonSample ==
    /\ mpc = "sample"
    /\ \E o \in TickOutcomes :
        /\ mpc' = AfterTick(o)
        /\ data_points' = IF AfterTick(o) = "sleep"
                          THEN Append(data_points, Metrics(o))
                          ELSE data_points
        /\ faults' = IF o = "sampled" THEN faults ELSE faults + 1
    /\ UNCHANGED <<cfgVars, runVars, stabVars, verVars, useVars>>
    /\ UNCHANGED <<log, interrupts, load_failed, micro_failed>>
    /\ UNCHANGED <<output_file, stop_event, thread, monitor_file, saves>>

\* _monitor_loop, line 72: time.sleep(self.interval) returns, or raises
\* for an interval that is not a non-negative number
MonWake ==
    /\ mpc = "sleep"
    /\ \/ Len(data_points) < MaxSamples
       \/ stop_event
       \/ config.defect = "bad_sampling_interval_seconds"
    /\ mpc' = IF config.defect = "bad_sampling_interval_seconds"
              THEN "died" ELSE "check"
    /\ UNCHANGED <<cfgVars, runVars, stabVars, verVars, histVars, useVars>>
    /\ UNCHANGED <<output_file, stop_event, thread, data_points,
                   monitor_file, saves>>

\* ---- float arithmetic. A float has MantissaBits significant bits (53 in
\* CPython, fewer here); the floats of get_summary are written in units of
\* the last place of the CPU readings, which share one binary exponent
MantissaBits == 5

\* the number of bits of v
BitLength(v) == CHOOSE b \in 0..30 : v < 2^b /\ (b = 0 \/ 2^(b - 1) <= v)

\* v rounded to the nearest float, ties to the even mantissa
FloatRound(v) ==
    LET b == BitLength(v)
        q == 2^(b - MantissaBits)
        lo == (v \div q) * q
    IN  IF b <= MantissaBits THEN v
        ELSE IF 2 * (v - lo) < q THEN lo
        ELSE IF 2 * (v - lo) > q THEN lo + q
        ELSE IF (lo \div q) % 2 = 0 THEN lo ELSE lo + q

\* sum(xs[1..k]) of floats: each addition rounds
RECURSIVE FloatSum(_, _)
FloatSum(xs, k) ==
    IF k = 0 THEN 0 ELSE FloatRound(FloatSum(xs, k - 1) + xs[k])

\* s / n of a float by a count, rounded; the quotients of get_summary lie
\* where the floats are one unit apart
FloatDiv(s, n) ==
    LET q == s \div n
        r == s % n
    IN  IF 2 * r < n THEN q
        ELSE IF 2 * r > n THEN q + 1
        ELSE IF q % 2 = 0 THEN q ELSE q + 1

\* max(xs)
MaxOf(xs) == CHOOSE v \in {xs[i] : i \in DOMAIN xs} : \A i \in DOMAIN xs : xs[i] <= v

\* get_summary: {} for an empty buffer; else the averages and maxima of
\* cpu_percent (floats) and of memory_rss (ints, whose sum is exact and
\* whose quotient is kept as a rational)
GetSummary(samples) ==
    IF Len(samples) = 0 THEN EmptyDict
    ELSE LET cpu == [i \in DOMAIN samples |-> samples[i].cpu_percent]
             rss == [i \in DOMAIN samples |-> samples[i].memory_rss]
         IN  [avg_cpu_percent |-> FloatDiv(FloatSum(cpu, Len(cpu)), Len(cpu)),
              max_cpu_percent |-> MaxOf(cpu),
              max_memory_rss |-> MaxOf(rss),
              avg_memory_rss |-> Rat(SumSeq(rss), Len(rss))]

(***************************************************************************)
(* The configuration document                                              *)
(***************************************************************************)
\* the first k sizes of a size list
SizeList(k) == [i \in 1..k |-> 32 * i]

\* names of the algorithms a configuration lists, in its order
KemNames == <<"ML-KEM-512", "ML-KEM-768", "Kyber512", "Kyber768">>
SignNames == <<"ML-DSA-44", "ML-DSA-65", "Dilithium2", "Dilithium3",
               "Falcon-512", "SPHINCS+-128s-simple">>

\* the first n entries of algorithms.kem / algorithms.sign. has_sizes: the
\* entries have the key payload_sizes / message_sizes, with k sizes
\* (k = -1: the key is missing)
Entries(names, n, k) ==
    [i \in 1..n |-> [name |-> names[i], implementation |-> "pqcrypto",
                     has_sizes |-> (k >= 0),
                     sizes |-> IF k >= 0 THEN SizeList(k) ELSE <<>>]]

\* the configuration documents with every field run reads. defect names
\* the field that is missing or malformed, if one is; the value the record
\* carries for that field is then never read
Configs ==
    {[kem |-> Entries(KemNames, nk, k), sign |-> Entries(SignNames, ns, k),
      warmup_iterations |-> MaxWarmup,
      long_run_duration_seconds |-> MaxRunDuration,
      defect |-> "none"] :
        nk \in 0..MaxKem, ns \in 0..MaxSign, k \in {-1, 0, MaxSizes}}

\* a required field is missing (no_) or is not of its type (bad_). A
\* document without execution or monitoring fails in __init__, lines
\* 23-27, and has no runner
Defects ==
    {"no_algorithms", "no_warmup_iterations", "no_long_run_duration_seconds",
     "bad_sampling_interval_seconds"}

DefectConfigs ==
    {[c EXCEPT !.defect = d] : c \in Configs, d \in Defects}

\* the entries in the order run goes through them: kem, then sign
Items(cfg) ==
    [i \in 1..(Len(cfg.kem) + Len(cfg.sign)) |->
        IF i <= Len(cfg.kem)
        THEN [alg_type |-> "kem", item |-> cfg.kem[i]]
        ELSE [alg_type |-> "sign", item |-> cfg.sign[i - Len(cfg.kem)]]]

ConfiguredNames(cfg) == {Items(cfg)[i].item.name : i \in DOMAIN Items(cfg)}

(***************************************************************************)
(* Algorithm adapter (algorithms.py)                                       *)
(***************************************************************************)
\* PQCRYPTO_MAPPING, lines 13-27
PQCRYPTO_MAPPING ==
    [n \in {KemNames[i] : i \in DOMAIN KemNames}
            \cup {SignNames[i] : i \in DOMAIN SignNames} |->
        CASE n = "ML-KEM-512" -> "pqcrypto.kem.ml_kem_512"
          [] n = "ML-KEM-768" -> "pqcrypto.kem.ml_kem_768"
          [] n = "Kyber512" -> "pqcrypto.kem.kyber512"
          [] n = "Kyber768" -> "pqcrypto.kem.kyber768"
          [] n = "ML-DSA-44" -> "pqcrypto.sign.ml_dsa_44"
          [] n = "ML-DSA-65" -> "pqcrypto.sign.ml_dsa_65"
          [] n = "Dilithium2" -> "pqcrypto.sign.dilithium2"
          [] n = "Dilithium3" -> "pqcrypto.sign.dilithium3"
          [] n = "Falcon-512" -> "pqcrypto.sign.falcon_512"
          [] n = "SPHINCS+-128s-simple" -> "pqcrypto.sign.sphincs_shake_128s_simple"]

\* line 37: PQCRYPTO_MAPPING.get(self.name, self.name)
ModuleName(name) ==
    IF name \in DOMAIN PQCRYPTO_MAPPING THEN PQCRYPTO_MAPPING[name] ELSE name

\* line 45: "ML-DSA" in self.name or "Dilithium" in self.name, over the
\* names of the model
DilithiumNames == {"ML-DSA-44", "ML-DSA-65", "Dilithium2", "Dilithium3"}

\* CryptoAlgorithm._load_module: the module, None, or the exception raised
LoadModule(name, implementation) ==
    IF implementation = "pqcrypto"
    THEN IF ModuleName(name) \in installed THEN "module" ELSE "ImportError"
    ELSE IF implementation = "dilithium-py"
         THEN IF name \in DilithiumNames THEN "NotImplementedError" ELSE None
         ELSE "ValueError"

Exceptions == {"ImportError", "NotImplementedError", "ValueError"}

\* alg_type.lower(), over the spellings of the model
Lower(alg_type) ==
    CASE alg_type = "KEM" -> "kem"
      [] alg_type = "Sign" -> "sign"
      [] OTHER -> alg_type

\* the result of a construction that raised
NoHandle == [alg_type |-> None, name |-> None, module |-> None]

\* get_algorithm: constructs KEM or Signature, whose __init__ loads the module
GetAlgorithm(alg_type, name, implementation) ==
    IF Lower(alg_type) \in {"kem", "sign"}
    THEN LET m == LoadModule(name, implementation)
         IN  IF m \in Exceptions
             THEN [raised |-> TRUE, handle |-> NoHandle]
             ELSE [raised |-> FALSE,
                   handle |-> [alg_type |-> Lower(alg_type), name |-> name,
                               module |-> m]]
    ELSE [raised |-> TRUE, handle |-> NoHandle]

\* what a call of a handle's operation can do. Signature.verify, called
\* with the bytes that keygen and sign returned, maps a raising provider
\* to False; every other operation passes the provider's exception on
CallOutcomes(handle, op) ==
    IF handle.alg_type = "sign" /\ op = "opB"
    THEN {"returns"}
    ELSE {"returns"} \cup (IF faults < MaxFaults THEN {"raises"} ELSE {})

(***************************************************************************)
(* BenchmarkRunner (runner.py)                                             *)
(***************************************************************************)
\* _measure_time and the inline perf_counter_ns pairs: one TimingSample,
\* in nanoseconds. Every timed call of a run measures the same duration
TimingSample == 1000

\* line 121: l / 1000.0, nanoseconds to microseconds
Microseconds(ns) == Rat(ns, 1000)

\* the mean without the division by the number of samples
Mean_Undivided(latencies_ns) ==
    Rat(SumSeq(latencies_ns), 1000)
\* statistics.mean of the latencies in microseconds
Mean(latencies_ns) ==
    Rat(SumSeq(latencies_ns), 1000 * Len(latencies_ns))

\* statistics.median: the middle element, or the mean of the two middle ones
Median(latencies_ns) ==
    LET n == Len(latencies_ns)
    IN  IF n % 2 = 1
        THEN Microseconds(Kth(latencies_ns, (n + 1) \div 2))
        ELSE Rat(Kth(latencies_ns, n \div 2) + Kth(latencies_ns, n \div 2 + 1),
                 2000)

\* the percentile as the largest sample
Percentile99_Max(latencies_ns) ==
    Microseconds(Kth(latencies_ns, Len(latencies_ns)))
\* np.percentile(latencies, 99), method 'linear': the virtual index is
\* 0.99 * (n - 1); the value lies between the order statistics at its
\* floor and its ceiling, at the index's fractional part
Percentile99(latencies_ns) ==
    LET n == Len(latencies_ns)
        lo == (99 * (n - 1)) \div 100
        frac == (99 * (n - 1)) % 100
        a == Kth(latencies_ns, lo + 1)
        b == IF frac = 0 THEN a ELSE Kth(latencies_ns, lo + 2)
    IN  Rat(100 * a + (b - a) * frac, 100 * 1000)

\* statistics.stdev(latencies) if len(latencies) > 1 else 0, kept as its
\* square, the sample variance in microseconds squared: with g the samples'
\* common divisor and y = x / g, g^2 (n sum(y^2) - sum(y)^2) / (n (n - 1))
StdDevSquared(latencies_ns) ==
    LET n == Len(latencies_ns)
        g == IF GCDSeq(latencies_ns) = 0 THEN 1 ELSE GCDSeq(latencies_ns)
        y == [i \in DOMAIN latencies_ns |-> latencies_ns[i] \div g]
        sq == [i \in DOMAIN y |-> y[i] * y[i]]
        unit == Rat(g, 1000)
        var == Rat(n * SumSeq(sq) - SumSeq(y) * SumSeq(y), n * (n - 1))
    IN  IF n > 1
        THEN Rat(unit[1] * unit[1] * var[1], unit[2] * unit[2] * var[2])
        ELSE Zero

\* the operations per microsecond
Throughput_PerMicrosecond(mean) ==
    IF mean[1] > 0 THEN RDiv(<<1, 1>>, mean) ELSE Zero
\* line 129: 1000000.0 / mean if mean > 0 else 0
Throughput(mean) ==
    IF mean[1] > 0 THEN RDiv(<<1000000, 1>>, mean) ELSE Zero

\* line 122: the dict of a non-empty list. std_dev_us is kept as its
\* square; n, the number of samples aggregated, is not a key of the dict
StatSummary(latencies_ns) ==
    [raised |-> None,
     n |-> Len(latencies_ns),
     avg_us |-> Mean(latencies_ns),
     median_us |-> Median(latencies_ns),
     p99_us |-> Percentile99(latencies_ns),
     min_us |-> Microseconds(Kth(latencies_ns, 1)),
     max_us |-> Microseconds(Kth(latencies_ns, Len(latencies_ns))),
     std_dev_us_squared |-> StdDevSquared(latencies_ns),
     throughput_ops_sec |-> Throughput(Mean(latencies_ns))]

\* the summary of no samples as a summary of zeros
CalculateStats_EmptyIsZero(latencies_ns) ==
    IF Len(latencies_ns) = 0
    THEN [raised |-> None, n |-> 0, avg_us |-> Zero, median_us |-> Zero,
          p99_us |-> Zero, min_us |-> Zero, max_us |-> Zero,
          std_dev_us_squared |-> Zero, throughput_ops_sec |-> Zero]
    ELSE StatSummary(latencies_ns)
\* _calculate_stats: the dict of line 122, or the StatisticsError that
\* statistics.mean raises for an empty list
CalculateStats(latencies_ns) ==
    IF Len(latencies_ns) = 0
    THEN [raised |-> "StatisticsError"]
    ELSE StatSummary(latencies_ns)

\* params.get('payload_sizes', [32]) / params.get('message_sizes', [32])
ParamsGet(item) == IF item.has_sizes THEN item.sizes ELSE <<32>>

\* the result keys of the two operations timed per size
KeyA(alg_type, size) ==
    IF alg_type = "kem" THEN <<"encaps_size", size>> ELSE <<"sign_size", size>>
\* the second operation's entry stored under the first operation's key
KeyB_AsKeyA(alg_type, size) ==
    KeyA(alg_type, size)
KeyB(alg_type, size) ==
    IF alg_type = "kem" THEN <<"decaps_size", size>> ELSE <<"verify_size", size>>

\* d with d[k] = v
DictSet(d, k, v) == [x \in DOMAIN d \cup {k} |-> IF x = k THEN v ELSE d[x]]

\* the positions of run inside its try block
InTry ==
    {"next_alg", "warmup", "micro_keygen", "micro_keypair", "micro_opA",
     "micro_opB", "micro_size_done", "micro_return", "collect",
     "stab_begin", "stab_check", "stab_cycle"}

\* the positions at which a provider operation is called
OpPcs ==
    {"warmup", "micro_keygen", "micro_keypair", "micro_opA", "micro_opB",
     "stab_cycle"}

Event(tag, name) == <<tag, name>>
NoName == "-"

\* the objects a run passes to the provider, by where they come from: a
\* keypair is the number of the keygen call of run_micro_benchmarks that
\* returned it (0: pk and sk are not bound); a message is the number of the
\* os.urandom call that returned it, with its length; a ciphertext or
\* signature is the size index and the trial of the encaps / sign call that
\* returned it
NoMessage == [id |-> 0, len |-> 0]
NoToken == [size |-> 0, trial |-> 0]
NoCall ==
    [op |-> "none", on |-> NoName, key |-> 0, message |-> NoMessage,
     token |-> NoToken, size |-> 0, trial |-> 0]

\* __init__, lines 20-29, for a document of cfgs: the monitor always gets
\* an output file
RunnerInitFor(cfgs) ==
    /\ config \in cfgs
    /\ installed \in {{ModuleName(n) : n \in ConfiguredNames(config) \ m} :
                        m \in {{}} \cup {{x} : x \in ConfiguredNames(config)}}
    /\ MonitorInit(TRUE)
    /\ pc = "preflight"
    /\ idx = 0
    /\ alg = None
    /\ w = 0
    /\ trial = 0
    /\ sizeIdx = 0
    /\ latA = <<>>
    /\ latB = <<>>
    /\ results = EmptyDict
    /\ full_results = NoResults
    /\ res_file = NoFile(NoResults)
    /\ all_algs = <<>>
    /\ hidx = 0
    /\ cstep = "keygen"
    /\ now = 0
    /\ end_time = 0
    /\ pass_start = NoTime
    /\ log = <<>>
    /\ faults = 0
    /\ interrupts = 0
    /\ load_failed = {}
    /\ micro_failed = {}
    /\ constructed = <<>>
    /\ keygens = 0
    /\ keypair = 0
    /\ message = NoMessage
    /\ ct = NoToken
    /\ call = NoCall

RunnerInit == RunnerInitFor(Configs)

VerifyIdle == vin = None /\ vout = "pending"

\* run, lines 168-172: the pre-flight CPU reading, a warning at most
Preflight ==
    /\ pc = "preflight"
    /\ pc' = "start_monitor"
    /\ UNCHANGED <<idx, alg, w, trial, sizeIdx, latA, latB, results,
                   full_results, res_file>>
    /\ UNCHANGED <<cfgVars, stabVars, monVars, histVars, verVars, useVars>>

\* run without the call of start()
StartMonitor_Skipped ==
    /\ pc = "start_monitor"
    /\ pc' = "init_results"
    /\ log' = Append(log, Event("monitor_start", NoName))
    /\ UNCHANGED <<idx, alg, w, trial, sizeIdx, latA, latB, results,
                   full_results, res_file>>
    /\ UNCHANGED <<faults, interrupts, load_failed, micro_failed>>
    /\ UNCHANGED <<cfgVars, stabVars, monVars, verVars, useVars>>

\* run, line 175: self.monitor.start()
StartMonitor ==
    /\ pc = "start_monitor"
    /\ SM_start
    /\ pc' = "init_results"
    /\ log' = Append(log, Event("monitor_start", NoName))
    /\ UNCHANGED <<idx, alg, w, trial, sizeIdx, latA, latB, results,
                   full_results, res_file>>
    /\ UNCHANGED <<faults, interrupts, load_failed, micro_failed>>
    /\ UNCHANGED <<cfgVars, stabVars, verVars, useVars>>

\* run, lines 177-185: full_results with start_time and no end_time yet
InitResults ==
    /\ pc = "init_results"
    /\ full_results' = [metadata |-> [start_time |-> now, end_time |-> NoTime],
                        micro_benchmarks |-> EmptyDict]
    /\ idx' = 1
    /\ pc' = "next_alg"
    /\ UNCHANGED <<alg, w, trial, sizeIdx, latA, latB, results, res_file>>
    /\ UNCHANGED <<cfgVars, stabVars, monVars, histVars, verVars, useVars>>

\* an exception other than KeyboardInterrupt leaves the try block of run:
\* lines 218-219 log it and the finally block follows
ExceptException ==
    /\ pc' = "stop_set"
    /\ log' = Append(log, Event("failed", NoName))

\* the object a constructor call returns: the handle, told apart from the
\* other handles of the run by its place among the handles constructed
Object(handle) ==
    [alg_type |-> handle.alg_type, name |-> handle.name,
     module |-> handle.module, id |-> Len(constructed) + 1]
\* a constructor call that returned: the entry it was made for, and whether
\* the for loops of run (lines 191, 199) or the pool of the stability test
\* (lines 209, 212) made it
Made(by, it) == [name |-> it.item.name, alg_type |-> it.alg_type, by |-> by]

\* run, lines 189-192 and 197-200: the for loops' next entry, its handle
\* and the warmup count. self.config['algorithms'] and
\* self.config['execution']['warmup_iterations'] raise KeyError for a
\* missing key
NextAlg ==
    /\ pc = "next_alg"
    /\ IF config.defect = "no_algorithms"
       THEN /\ ExceptException
            /\ UNCHANGED <<alg, w, idx, load_failed, constructed>>
       ELSE IF idx <= Len(Items(config))
       THEN LET it == Items(config)[idx]
                g == GetAlgorithm(it.alg_type, it.item.name, it.item.implementation)
            IN  IF g.raised
                THEN /\ ExceptException
                     /\ load_failed' = load_failed \cup {it.item.name}
                     /\ UNCHANGED <<alg, w, idx, constructed>>
                ELSE IF config.defect = "no_warmup_iterations"
                THEN /\ ExceptException
                     /\ alg' = Object(g.handle)
                     /\ constructed' = Append(constructed, Made("run", it))
                     /\ UNCHANGED <<w, idx, load_failed>>
                ELSE /\ alg' = Object(g.handle)
                     /\ constructed' = Append(constructed, Made("run", it))
                     /\ w' = 0
                     /\ pc' = "warmup"
                     /\ log' = Append(log, Event("warmup", it.item.name))
                     /\ UNCHANGED <<load_failed, idx>>
       ELSE /\ pc' = "collect"
            /\ idx' = 1
            /\ UNCHANGED <<alg, w, log, load_failed, constructed>>
    /\ UNCHANGED <<trial, sizeIdx, latA, latB, results, full_results, res_file>>
    /\ UNCHANGED <<faults, interrupts, micro_failed>>
    /\ UNCHANGED <<cfgVars, stabVars, monVars, verVars>>
    /\ UNCHANGED <<keygens, keypair, message, ct, call>>

\* the call without the try of line 41: the exception leaves run_warmup
\* and reaches the except clause of run
WarmupCall_Uncaught ==
    /\ pc = "warmup"
    /\ w < config.warmup_iterations
    /\ \E o \in CallOutcomes(alg, "keygen") :
        IF o = "raises"
        THEN /\ faults' = faults + 1
             /\ ExceptException
        ELSE UNCHANGED <<faults, pc, log>>
    /\ w' = w + 1
    /\ UNCHANGED <<idx, alg, trial, sizeIdx, latA, latB, results,
                   full_results, res_file>>
    /\ UNCHANGED <<interrupts, load_failed, micro_failed>>
    /\ UNCHANGED <<cfgVars, stabVars, monVars, verVars, useVars>>

\* run_warmup, lines 40-44: one keygen call, its exception swallowed
WarmupCall ==
    /\ pc = "warmup"
    /\ w < config.warmup_iterations
    /\ \E o \in CallOutcomes(alg, "keygen") :
        faults' = IF o = "raises" THEN faults + 1 ELSE faults
    /\ w' = w + 1
    /\ UNCHANGED <<pc, idx, alg, trial, sizeIdx, latA, latB, results,
                   full_results, res_file>>
    /\ UNCHANGED <<log, interrupts, load_failed, micro_failed>>
    /\ UNCHANGED <<cfgVars, stabVars, monVars, verVars, useVars>>

\* run_warmup returns; run_micro_benchmarks, lines 47-57, begins
WarmupDone ==
    /\ pc = "warmup"
    /\ w >= config.warmup_iterations
    /\ pc' = "micro_keygen"
    /\ results' = EmptyDict
    /\ trial' = 0
    /\ latA' = <<>>
    /\ log' = Append(log, Event("micro", alg.name))
    /\ UNCHANGED <<idx, alg, w, sizeIdx, latB, full_results, res_file>>
    /\ UNCHANGED <<faults, interrupts, load_failed, micro_failed>>
    /\ UNCHANGED <<cfgVars, stabVars, monVars, verVars>>
    /\ keygens' = 0
    /\ keypair' = 0
    /\ message' = NoMessage
    /\ ct' = NoToken
    /\ call' = NoCall
    /\ UNCHANGED constructed

\* a provider exception inside run_micro_benchmarks: nothing catches it
\* before the except clause of run
MicroRaises ==
    /\ ExceptException
    /\ faults' = faults + 1
    /\ micro_failed' = micro_failed \cup {alg.name}

\* run_micro_benchmarks, lines 58-59: one timed keygen
MicroKeygen ==
    /\ pc = "micro_keygen"
    /\ trial < Iterations
    /\ \E o \in CallOutcomes(alg, "keygen") :
        IF o = "raises"
        THEN MicroRaises /\ UNCHANGED <<latA, trial>>
        ELSE /\ latA' = Append(latA, TimingSample)
             /\ trial' = trial + 1
             /\ UNCHANGED <<pc, log, faults, micro_failed>>
    /\ UNCHANGED <<idx, alg, w, sizeIdx, latB, results, full_results, res_file>>
    /\ UNCHANGED <<interrupts, load_failed>>
    /\ UNCHANGED <<cfgVars, stabVars, monVars, verVars>>
    /\ keygens' = keygens + 1
    /\ UNCHANGED <<constructed, keypair, message, ct, call>>

\* the record stored in the document as soon as its first entry exists
MicroKeygenDone_StoresEarly ==
    /\ pc = "micro_keygen"
    /\ trial >= Iterations
    /\ results' = DictSet(results, <<"keygen">>, CalculateStats(latA))
    /\ full_results' =
         [full_results EXCEPT !.micro_benchmarks = DictSet(@, alg.name, results')]
    /\ pc' = "micro_keypair"
    /\ UNCHANGED <<idx, alg, w, trial, sizeIdx, latA, latB, res_file>>
    /\ UNCHANGED <<cfgVars, stabVars, monVars, histVars, verVars, useVars>>

\* run_micro_benchmarks, line 61: results['keygen']
MicroKeygenDone ==
    /\ pc = "micro_keygen"
    /\ trial >= Iterations
    /\ results' = DictSet(results, <<"keygen">>, CalculateStats(latA))
    /\ pc' = "micro_keypair"
    /\ UNCHANGED <<idx, alg, w, trial, sizeIdx, latA, latB, full_results, res_file>>
    /\ UNCHANGED <<cfgVars, stabVars, monVars, histVars, verVars, useVars>>

\* the size list of the entry being benchmarked
Sizes == ParamsGet(Items(config)[idx].item)

\* line 99, os.urandom(size): one more message, of size bytes
Urandom(size) == [id |-> message.id + 1, len |-> size]

\* the size loop's next step: its body for the size at index i (lines 71-72;
\* lines 99-101 with the message of the size), or the return
EnterSize(i) ==
    /\ sizeIdx' = i
    /\ trial' = 0
    /\ latA' = <<>>
    /\ latB' = <<>>
    /\ message' = IF i <= Len(Sizes) /\ alg.alg_type = "sign"
                  THEN Urandom(Sizes[i])
                  ELSE message
    /\ pc' = IF i <= Len(Sizes) THEN "micro_opA" ELSE "micro_return"

\* run_micro_benchmarks without line 64: no keypair is generated for the
\* steps that follow
MicroKeypair_NotGenerated ==
    /\ pc = "micro_keypair"
    /\ EnterSize(1)
    /\ UNCHANGED <<idx, alg, w, results, full_results, res_file>>
    /\ UNCHANGED <<cfgVars, stabVars, monVars, histVars, verVars>>
    /\ UNCHANGED <<constructed, keygens, keypair, ct, call>>

\* run_micro_benchmarks, line 64: the keypair of the steps that follow
MicroKeypair ==
    /\ pc = "micro_keypair"
    /\ \E o \in CallOutcomes(alg, "keygen") :
        IF o = "raises"
        THEN /\ MicroRaises
             /\ UNCHANGED <<sizeIdx, trial, latA, latB, keypair, message>>
        ELSE /\ keypair' = keygens + 1
             /\ EnterSize(1)
             /\ UNCHANGED <<log, faults, micro_failed>>
    /\ UNCHANGED <<idx, alg, w, results, full_results, res_file>>
    /\ UNCHANGED <<interrupts, load_failed>>
    /\ UNCHANGED <<cfgVars, stabVars, monVars, verVars>>
    /\ keygens' = keygens + 1
    /\ UNCHANGED <<constructed, ct, call>>

\* the trial with a message of its own: os.urandom inside the trial loop
MicroOpA_FreshMessage ==
    /\ pc = "micro_opA"
    /\ \E o \in CallOutcomes(alg, "opA") :
        IF o = "raises"
        THEN MicroRaises /\ UNCHANGED <<latA, ct>>
        ELSE /\ latA' = Append(latA, TimingSample)
             /\ ct' = [size |-> sizeIdx, trial |-> trial + 1]
             /\ pc' = "micro_opB"
             /\ UNCHANGED <<log, faults, micro_failed>>
    /\ UNCHANGED <<idx, alg, w, trial, sizeIdx, latB, results, full_results,
                   res_file>>
    /\ UNCHANGED <<interrupts, load_failed>>
    /\ UNCHANGED <<cfgVars, stabVars, monVars, verVars>>
    /\ message' = IF alg.alg_type = "sign" THEN Urandom(Sizes[sizeIdx])
                                         ELSE message
    /\ call' = [op |-> "opA", on |-> alg.name, key |-> keypair,
                message |-> message', token |-> NoToken,
                size |-> sizeIdx, trial |-> trial + 1]
    /\ UNCHANGED <<constructed, keygens, keypair>>

\* run_micro_benchmarks, lines 83-86 and 104-107: one timed encaps(pk) /
\* sign(message, sk), which returns the ct / sig of the trial
MicroOpA ==
    /\ pc = "micro_opA"
    /\ \E o \in CallOutcomes(alg, "opA") :
        IF o = "raises"
        THEN MicroRaises /\ UNCHANGED <<latA, ct>>
        ELSE /\ latA' = Append(latA, TimingSample)
             /\ ct' = [size |-> sizeIdx, trial |-> trial + 1]
             /\ pc' = "micro_opB"
             /\ UNCHANGED <<log, faults, micro_failed>>
    /\ UNCHANGED <<idx, alg, w, trial, sizeIdx, latB, results, full_results,
                   res_file>>
    /\ UNCHANGED <<interrupts, load_failed>>
    /\ UNCHANGED <<cfgVars, stabVars, monVars, verVars>>
    /\ call' = [op |-> "opA", on |-> alg.name, key |-> keypair,
                message |-> message, token |-> NoToken,
                size |-> sizeIdx, trial |-> trial + 1]
    /\ UNCHANGED <<constructed, keygens, keypair, message>>

\* run_micro_benchmarks, lines 88-91 and 109-112: one timed
\* decaps(ct, sk) / verify(pk, message, sig)
MicroOpB ==
    /\ pc = "micro_opB"
    /\ \E o \in CallOutcomes(alg, "opB") :
        IF o = "raises"
        THEN MicroRaises /\ UNCHANGED <<latB, trial>>
        ELSE /\ latB' = Append(latB, TimingSample)
             /\ trial' = trial + 1
             /\ pc' = IF trial + 1 < Iterations THEN "micro_opA"
                                                ELSE "micro_size_done"
             /\ UNCHANGED <<log, faults, micro_failed>>
    /\ UNCHANGED <<idx, alg, w, sizeIdx, latA, results, full_results, res_file>>
    /\ UNCHANGED <<interrupts, load_failed>>
    /\ UNCHANGED <<cfgVars, stabVars, monVars, verVars>>
    /\ call' = [op |-> "opB", on |-> alg.name, key |-> keypair,
                message |-> message, token |-> ct,
                size |-> sizeIdx, trial |-> trial + 1]
    /\ UNCHANGED <<constructed, keygens, keypair, message, ct>>

\* run_micro_benchmarks, lines 93-94 and 114-115: the two entries of a size
MicroSizeDone ==
    /\ pc = "micro_size_done"
    /\ results' = DictSet(DictSet(results,
                                  KeyA(alg.alg_type, Sizes[sizeIdx]),
                                  CalculateStats(latA)),
                          KeyB(alg.alg_type, Sizes[sizeIdx]),
                          CalculateStats(latB))
    /\ EnterSize(sizeIdx + 1)
    /\ UNCHANGED <<idx, alg, w, full_results, res_file>>
    /\ UNCHANGED <<cfgVars, stabVars, monVars, histVars, verVars>>
    /\ UNCHANGED <<constructed, keygens, keypair, ct, call>>

\* run, lines 193-194 and 201-202: the record is stored under the name
MicroReturn ==
    /\ pc = "micro_return"
    /\ full_results' =
         [full_results EXCEPT !.micro_benchmarks = DictSet(@, alg.name, results)]
    /\ idx' = idx + 1
    /\ pc' = "next_alg"
    /\ UNCHANGED <<alg, w, trial, sizeIdx, latA, latB, results, res_file>>
    /\ UNCHANGED <<cfgVars, stabVars, monVars, histVars, verVars, useVars>>

\* run, lines 206-212: the pool of the stability test, a fresh handle per
\* entry
Collect ==
    /\ pc = "collect"
    /\ IF idx <= Len(Items(config))
       THEN LET it == Items(config)[idx]
                g == GetAlgorithm(it.alg_type, it.item.name, it.item.implementation)
            IN  IF g.raised
                THEN /\ ExceptException
                     /\ load_failed' = load_failed \cup {it.item.name}
                     /\ UNCHANGED <<all_algs, idx, constructed>>
                ELSE /\ all_algs' = Append(all_algs, Object(g.handle))
                     /\ constructed' = Append(constructed, Made("pool", it))
                     /\ idx' = idx + 1
                     /\ UNCHANGED <<pc, log, load_failed>>
       ELSE /\ pc' = "stab_begin"
            /\ UNCHANGED <<all_algs, idx, log, load_failed, constructed>>
    /\ UNCHANGED <<alg, w, trial, sizeIdx, latA, latB, results, full_results,
                   res_file>>
    /\ UNCHANGED <<hidx, cstep, now, end_time, pass_start>>
    /\ UNCHANGED <<faults, interrupts, micro_failed>>
    /\ UNCHANGED <<cfgVars, monVars, verVars>>
    /\ UNCHANGED <<keygens, keypair, message, ct, call>>

\* run, line 214, and run_long_stability_test, lines 133-144: end_time =
\* start_time + duration. A missing long_run_duration_seconds raises
\* KeyError before the call
StabBegin ==
    /\ pc = "stab_begin"
    /\ IF config.defect = "no_long_run_duration_seconds"
       THEN /\ ExceptException
            /\ UNCHANGED end_time
       ELSE /\ end_time' = now + config.long_run_duration_seconds
            /\ pc' = "stab_check"
            /\ log' = Append(log, Event("stability", NoName))
    /\ UNCHANGED <<all_algs, hidx, cstep, now, pass_start>>
    /\ UNCHANGED <<idx, alg, w, trial, sizeIdx, latA, latB, results,
                   full_results, res_file>>
    /\ UNCHANGED <<faults, interrupts, load_failed, micro_failed>>
    /\ UNCHANGED <<cfgVars, monVars, verVars, useVars>>

\* run_long_stability_test, line 145: while time.time() < end_time
ClockBeforeEnd == now < end_time

\* line 145: another pass, or the return of run_long_stability_test, after
\* which run falls into its finally block
StabCheck ==
    /\ pc = "stab_check"
    /\ IF ClockBeforeEnd
       THEN /\ pc' = "stab_cycle"
            /\ hidx' = 1
            /\ cstep' = "keygen"
            /\ pass_start' = now
            /\ UNCHANGED log
       ELSE /\ pc' = "stop_set"
            /\ log' = Append(log, Event("stability_completed", NoName))
            /\ UNCHANGED <<hidx, cstep, pass_start>>
    /\ UNCHANGED <<all_algs, now, end_time>>
    /\ UNCHANGED <<idx, alg, w, trial, sizeIdx, latA, latB, results,
                   full_results, res_file>>
    /\ UNCHANGED <<faults, interrupts, load_failed, micro_failed>>
    /\ UNCHANGED <<cfgVars, monVars, verVars, useVars>>

\* the operation after op in a handle's cycle
NextStep(op) == IF op = "keygen" THEN "opA" ELSE "opB"

\* the cycle without the try of line 148: the exception leaves
\* run_long_stability_test and reaches the except clause of run
StabOp_Uncaught ==
    /\ pc = "stab_cycle"
    /\ hidx <= Len(all_algs)
    /\ \E o \in CallOutcomes(all_algs[hidx], cstep) :
        /\ now' = now + OpTime
        /\ IF o = "raises"
           THEN /\ faults' = faults + 1
                /\ ExceptException
                /\ UNCHANGED <<hidx, cstep>>
           ELSE /\ UNCHANGED <<faults, log, pc>>
                /\ hidx' = IF cstep = "opB" THEN hidx + 1 ELSE hidx
                /\ cstep' = IF cstep = "opB" THEN "keygen" ELSE NextStep(cstep)
    /\ UNCHANGED <<all_algs, end_time, pass_start>>
    /\ UNCHANGED <<idx, alg, w, trial, sizeIdx, latA, latB, results,
                   full_results, res_file>>
    /\ UNCHANGED <<interrupts, load_failed, micro_failed>>
    /\ UNCHANGED <<cfgVars, monVars, verVars, useVars>>

\* run_long_stability_test, lines 148-158: one operation of one handle's
\* cycle; an exception is logged and ends the cycle
StabOp ==
    /\ pc = "stab_cycle"
    /\ hidx <= Len(all_algs)
    /\ \E o \in CallOutcomes(all_algs[hidx], cstep) :
        /\ now' = now + OpTime
        /\ IF o = "raises"
           THEN /\ faults' = faults + 1
                /\ log' = Append(log, Event("stability_error",
                                            all_algs[hidx].name))
                /\ hidx' = hidx + 1
                /\ cstep' = "keygen"
           ELSE /\ UNCHANGED <<faults, log>>
                /\ hidx' = IF cstep = "opB" THEN hidx + 1 ELSE hidx
                /\ cstep' = IF cstep = "opB" THEN "keygen" ELSE NextStep(cstep)
    /\ UNCHANGED <<all_algs, end_time, pass_start>>
    /\ UNCHANGED runVars
    /\ UNCHANGED <<interrupts, load_failed, micro_failed>>
    /\ UNCHANGED <<cfgVars, monVars, verVars, useVars>>

\* lines 160-162: the pass is over. The clock moves on between two readings
\* of it even when the pool is empty
StabPassEnd ==
    /\ pc = "stab_cycle"
    /\ hidx > Len(all_algs)
    /\ pc' = "stab_check"
    /\ now' = IF Len(all_algs) = 0 THEN now + 1 ELSE now
    /\ UNCHANGED <<all_algs, hidx, cstep, end_time, pass_start>>
    /\ UNCHANGED <<idx, alg, w, trial, sizeIdx, latA, latB, results,
                   full_results, res_file>>
    /\ UNCHANGED <<cfgVars, monVars, histVars, verVars, useVars>>

\* the caller of stop() moves from position here to position there
StopSet(here, there) ==
    /\ pc = here
    /\ SM_stop_set
    /\ pc' = there

StopJoin(here, there) ==
    /\ pc = here
    /\ SM_stop_join
    /\ pc' = there

StopSave(here, there) ==
    /\ pc = here
    /\ \E io \in IoOutcomes :
        /\ SM_stop_save(io)
        /\ faults' = IF io = "ok" THEN faults ELSE faults + 1
    /\ pc' = there

\* run, line 221: self.monitor.stop()
FinallyStopSet ==
    /\ StopSet("stop_set", "stop_join")
    /\ UNCHANGED <<idx, alg, w, trial, sizeIdx, latA, latB, results,
                   full_results, res_file>>
    /\ UNCHANGED <<cfgVars, stabVars, histVars, verVars, useVars>>

FinallyStopJoin ==
    /\ StopJoin("stop_join", "stop_save")
    /\ log' = Append(log, Event("monitor_stop", NoName))
    /\ UNCHANGED <<idx, alg, w, trial, sizeIdx, latA, latB, results,
                   full_results, res_file>>
    /\ UNCHANGED <<faults, interrupts, load_failed, micro_failed>>
    /\ UNCHANGED <<cfgVars, stabVars, verVars, useVars>>

FinallyStopSave ==
    /\ StopSave("stop_save", "stamp_end")
    /\ UNCHANGED <<idx, alg, w, trial, sizeIdx, latA, latB, results,
                   full_results, res_file>>
    /\ UNCHANGED <<log, interrupts, load_failed, micro_failed>>
    /\ UNCHANGED <<cfgVars, stabVars, verVars, useVars>>

\* run without line 222
StampEnd_Unstamped ==
    /\ pc = "stamp_end"
    /\ pc' = "persist"
    /\ UNCHANGED <<idx, alg, w, trial, sizeIdx, latA, latB, results,
                   full_results, res_file>>
    /\ UNCHANGED <<cfgVars, stabVars, monVars, histVars, verVars, useVars>>

\* run, line 222: the end time
StampEnd ==
    /\ pc = "stamp_end"
    /\ full_results' = [full_results EXCEPT !.metadata.end_time = now]
    /\ pc' = "persist"
    /\ UNCHANGED <<idx, alg, w, trial, sizeIdx, latA, latB, results, res_file>>
    /\ UNCHANGED <<cfgVars, stabVars, monVars, histVars, verVars, useVars>>

\* run, lines 225-228: the result document is written; an OSError of the
\* write leaves run
Persist ==
    /\ pc = "persist"
    /\ \E io \in IoOutcomes :
        IF io = "ok"
        THEN /\ res_file' = FileOf(full_results)
             /\ pc' = "done"
             /\ log' = Append(log, Event("emit", NoName))
             /\ UNCHANGED faults
        ELSE /\ pc' = "aborted"
             /\ faults' = faults + 1
             /\ UNCHANGED <<res_file, log>>
    /\ UNCHANGED <<idx, alg, w, trial, sizeIdx, latA, latB, results,
                   full_results>>
    /\ UNCHANGED <<interrupts, load_failed, micro_failed>>
    /\ UNCHANGED <<cfgVars, stabVars, monVars, verVars, useVars>>

\* the handlers of run_warmup and of the stability loop as bare except
\* clauses: they absorb the KeyboardInterrupt and the phase goes on
Interrupt_Absorbed ==
    /\ interrupts < MaxInterrupts
    /\ pc \notin {"done", "aborted"}
    /\ interrupts' = interrupts + 1
    /\ IF pc \in {"warmup", "stab_cycle"}
       THEN UNCHANGED <<pc, log>>
       ELSE IF pc \in InTry
       THEN /\ pc' = "stop_set"
            /\ log' = Append(log, Event("interrupted", NoName))
       ELSE /\ pc' = "aborted"
            /\ UNCHANGED log
    /\ UNCHANGED <<idx, alg, w, trial, sizeIdx, latA, latB, results,
                   full_results, res_file>>
    /\ UNCHANGED <<faults, load_failed, micro_failed>>
    /\ UNCHANGED <<cfgVars, stabVars, monVars, verVars, useVars>>

\* a KeyboardInterrupt reaches the main thread between two steps. Inside
\* the try block, lines 216-217 catch it and the finally block follows;
\* before the try block (lines 168-185) and inside the finally block
\* (lines 221-228) nothing catches it and it leaves run
Interrupt ==
    /\ interrupts < MaxInterrupts
    /\ pc \notin {"done", "aborted"}
    /\ interrupts' = interrupts + 1
    /\ IF pc \in InTry
       THEN /\ pc' = "stop_set"
            /\ log' = Append(log, Event("interrupted", NoName))
       ELSE /\ pc' = "aborted"
            /\ UNCHANGED log
    /\ UNCHANGED <<idx, alg, w, trial, sizeIdx, latA, latB, results,
                   full_results, res_file>>
    /\ UNCHANGED <<faults, load_failed, micro_failed>>
    /\ UNCHANGED <<cfgVars, stabVars, monVars, verVars, useVars>>

Init == RunnerInit /\ VerifyIdle

Next ==
    \/ Preflight \/ StartMonitor \/ InitResults
    \/ NextAlg \/ WarmupCall \/ WarmupDone
    \/ MicroKeygen \/ MicroKeygenDone \/ MicroKeypair
    \/ MicroOpA \/ MicroOpB \/ MicroSizeDone \/ MicroReturn
    \/ Collect \/ StabBegin \/ StabCheck \/ StabOp \/ StabPassEnd
    \/ FinallyStopSet \/ FinallyStopJoin \/ FinallyStopSave
    \/ StampEnd \/ Persist
    \/ Interrupt
    \/ MonCheck \/ MonSample \/ MonWake

Spec == Init /\ [][Next]_vars

(***************************************************************************)
(* SpecConfig: run on a configuration document with one defective field    *)
(***************************************************************************)
InitConfig == RunnerInitFor(DefectConfigs) /\ VerifyIdle

SpecConfig == InitConfig /\ [][Next]_vars

(***************************************************************************)
(* SpecMonitor: one start() followed by one stop() on a SystemMonitor,     *)
(* with and without an output file                                         *)
(***************************************************************************)
\* a configuration that lists no algorithm
NoAlgorithms ==
    [kem |-> <<>>, sign |-> <<>>,
     warmup_iterations |-> MaxWarmup,
     long_run_duration_seconds |-> MaxRunDuration,
     defect |-> "none"]

\* the locals of run while no run is in progress
RunIdle ==
    /\ idx = 0
    /\ alg = None
    /\ w = 0
    /\ trial = 0
    /\ sizeIdx = 0
    /\ latA = <<>>
    /\ latB = <<>>
    /\ results = EmptyDict
    /\ full_results = NoResults
    /\ res_file = NoFile(NoResults)
    /\ all_algs = <<>>
    /\ hidx = 0
    /\ cstep = "keygen"
    /\ now = 0
    /\ end_time = 0
    /\ pass_start = NoTime
    /\ log = <<>>
    /\ faults = 0
    /\ interrupts = 0
    /\ load_failed = {}
    /\ micro_failed = {}
    /\ constructed = <<>>
    /\ keygens = 0
    /\ keypair = 0
    /\ message = NoMessage
    /\ ct = NoToken
    /\ call = NoCall

\* the runner's variables while no run is in progress
RunnerIdle ==
    /\ config = NoAlgorithms
    /\ installed = {}
    /\ RunIdle

InitMonitor ==
    /\ RunnerIdle
    /\ VerifyIdle
    /\ pc = "t_start"
    /\ \E out \in BOOLEAN : MonitorInit(out)

callerIdle == <<idx, alg, w, trial, sizeIdx, latA, latB, results,
                full_results, res_file>>

\* the caller calls start()
TStart ==
    /\ pc = "t_start"
    /\ SM_start
    /\ pc' = "t_stop"
    /\ UNCHANGED <<callerIdle, cfgVars, stabVars, histVars, verVars, useVars>>

\* the caller calls stop(): the three steps of it
TStopSet ==
    /\ StopSet("t_stop", "t_join")
    /\ UNCHANGED <<callerIdle, cfgVars, stabVars, histVars, verVars, useVars>>

TStopJoin ==
    /\ StopJoin("t_join", "t_save")
    /\ UNCHANGED <<callerIdle, cfgVars, stabVars, histVars, verVars, useVars>>

TStopSave ==
    /\ StopSave("t_save", "t_done")
    /\ UNCHANGED <<callerIdle, cfgVars, stabVars, verVars, useVars>>
    /\ UNCHANGED <<log, interrupts, load_failed, micro_failed>>

NextMonitor ==
    \/ TStart \/ TStopSet \/ TStopJoin \/ TStopSave
    \/ MonCheck \/ MonSample \/ MonWake

SpecMonitor == InitMonitor /\ [][NextMonitor]_vars

\* the same with a scheduler that lets the sampling thread run whenever it
\* can take a step: a started thread is scheduled, and time.sleep returns
SpecMonitorFair ==
    /\ InitMonitor
    /\ [][NextMonitor]_vars
    /\ WF_vars(MonCheck) /\ WF_vars(MonSample) /\ WF_vars(MonWake)

(***************************************************************************)
(* SpecVerify: Signature.verify                                            *)
(***************************************************************************)
\* what the caller passes for a bytes parameter
ArgKinds == {"bytes", "bytearray", "str", "None"}

\* bytes(x) of lines 94-96 raises TypeError for a str and for None
BytesRaises(kind) == kind \in {"str", "None"}

\* the provider module as verify sees it: whether it has verify / open and
\* what a call of them does. self.module = None has neither
VerifyBehaviours == {"absent", "True", "False", "None", "raises"}
OpenBehaviours == {"absent", "message", "other", "None", "raises"}

VerifyInputs ==
    [verify : VerifyBehaviours, open : OpenBehaviours,
     public_key : ArgKinds, message : ArgKinds, signature : ArgKinds]

\* Signature.verify, lines 94-125: what the call returns, or the exception
\* that leaves it
Verify(in) ==
    IF \/ BytesRaises(in.public_key)
       \/ BytesRaises(in.message)
       \/ BytesRaises(in.signature)
    THEN "TypeError"
    ELSE IF in.verify # "absent"
         THEN IF in.verify = "raises" THEN "False" ELSE in.verify
         ELSE IF in.open # "absent"
              THEN IF in.open = "message" THEN "True" ELSE "False"
              ELSE "False"

InitVerify ==
    /\ RunnerIdle
    /\ pc = "v_call"
    /\ MonitorInit(FALSE)
    /\ vin \in VerifyInputs
    /\ vout = "pending"

\* the call
VerifyCall ==
    /\ pc = "v_call"
    /\ vout' = Verify(vin)
    /\ pc' = "v_returned"
    /\ UNCHANGED <<vin, callerIdle, cfgVars, stabVars, monVars, histVars, useVars>>

NextVerify == VerifyCall

SpecVerify == InitVerify /\ [][NextVerify]_vars

(***************************************************************************)
(* SpecLoad: get_algorithm                                                 *)
(***************************************************************************)
\* a name PQCRYPTO_MAPPING has no entry for: the path of a provider module
UnregisteredName == "pqcrypto.kem.hqc_128"

LoadNames == DOMAIN PQCRYPTO_MAPPING \cup {UnregisteredName}
AlgTypes == {"kem", "KEM", "sign", "Sign", "hash"}
Implementations == {"pqcrypto", "dilithium-py", "liboqs"}

LoadInputs ==
    [alg_type : AlgTypes, name : LoadNames, implementation : Implementations]

\* the module the name resolves to can be imported, or it cannot
InitLoad ==
    /\ RunIdle
    /\ config = NoAlgorithms
    /\ pc = "g_call"
    /\ MonitorInit(FALSE)
    /\ vin \in LoadInputs
    /\ installed \in {{}, {ModuleName(vin.name)}}
    /\ vout = "pending"

\* the call
LoadCall ==
    /\ pc = "g_call"
    /\ vout' = GetAlgorithm(vin.alg_type, vin.name, vin.implementation)
    /\ pc' = "g_returned"
    /\ UNCHANGED <<vin, callerIdle, cfgVars, stabVars, monVars, histVars, useVars>>

NextLoad == LoadCall

SpecLoad == InitLoad /\ [][NextLoad]_vars

(***************************************************************************)
(* SpecStats: _calculate_stats                                             *)
(***************************************************************************)
\* the longest latency list drawn, and the longest latency in it, in steps
\* of half a microsecond
MaxTrials == 3
MaxLatency == 3
Latencies == {500 * i : i \in 0..MaxLatency}

\* 1, 2, ..., 100 microseconds
OneToHundred == [i \in 1..100 |-> 1000 * i]

RECURSIVE SeqsUpTo(_, _)
SeqsUpTo(S, n) ==
    IF n = 0 THEN {<<>>}
    ELSE LET shorter == SeqsUpTo(S, n - 1)
         IN  shorter \cup {Append(xs, x) :
                              xs \in {ys \in shorter : Len(ys) = n - 1}, x \in S}

StatsInputs == SeqsUpTo(Latencies, MaxTrials) \cup {OneToHundred}

InitStats ==
    /\ RunnerIdle
    /\ pc = "s_call"
    /\ MonitorInit(FALSE)
    /\ vin \in StatsInputs
    /\ vout = "pending"

\* the call
StatsCall ==
    /\ pc = "s_call"
    /\ vout' = CalculateStats(vin)
    /\ pc' = "s_returned"
    /\ UNCHANGED <<vin, callerIdle, cfgVars, stabVars, monVars, histVars, useVars>>

NextStats == StatsCall

SpecStats == InitStats /\ [][NextStats]_vars

(***************************************************************************)
(* SpecSummary: SystemMonitor.get_summary                                  *)
(***************************************************************************)
\* the longest buffer drawn
MaxSummarySamples == 3
\* the process CPU readings drawn: the MaxCpuReadings largest floats below
\* the next power of two
MaxCpuReadings == 6
CpuReadings == (2^MantissaBits - MaxCpuReadings)..(2^MantissaBits - 1)
\* the resident set sizes drawn, in pages
MaxRss == 1
RssReadings == {4096 * i : i \in 0..MaxRss}

\* the fields of a sample that get_summary reads
SummarySamples == [cpu_percent : CpuReadings, memory_rss : RssReadings]

\* a monitor whose buffer holds samples; vin keeps the buffer as it was
\* when get_summary was called
InitSummary ==
    /\ RunnerIdle
    /\ pc = "u_call"
    /\ output_file = FALSE
    /\ stop_event = FALSE
    /\ thread = "none"
    /\ mpc = "unborn"
    /\ data_points \in SeqsUpTo(SummarySamples, MaxSummarySamples)
    /\ monitor_file = NoFile(<<>>)
    /\ saves = 0
    /\ vin = data_points
    /\ vout = "pending"

\* the call
SummaryCall ==
    /\ pc = "u_call"
    /\ vout' = GetSummary(data_points)
    /\ pc' = "u_returned"
    /\ UNCHANGED <<vin, callerIdle, cfgVars, stabVars, monVars, histVars, useVars>>

NextSummary == SummaryCall

SpecSummary == InitSummary /\ [][NextSummary]_vars

(***************************************************************************)
(* Properties                                                              *)
(***************************************************************************)
RunEnded == pc \in {"done", "aborted"}
MonitorStarted == thread = "started"
Logged(tag) == \E i \in DOMAIN log : log[i][1] = tag
LoggedFor(tag, name) == \E i \in DOMAIN log : log[i] = Event(tag, name)
\* nothing failed and nothing interrupted the run
NoFailures ==
    /\ faults = 0
    /\ interrupts = 0
    /\ \A n \in ConfiguredNames(config) : ModuleName(n) \in installed
\* the index of a configured name in the order of run
IndexOf(name) ==
    CHOOSE i \in DOMAIN Items(config) : Items(config)[i].item.name = name
Benchmarked(doc) == DOMAIN doc.micro_benchmarks

\* C1: a KeyboardInterrupt that arrives at any point after the Monitor was
\* started still leads to the finalize steps: when run has ended, the
\* Monitor has been stopped and the result document has been persisted.
C1_InterruptStillFinalizes ==
    (RunEnded /\ MonitorStarted /\ interrupts > 0 /\ faults = 0)
        => (stop_event /\ ThreadTerminated /\ res_file.written)

\* C2: when a timed call raises in one algorithm's micro-benchmark phase,
\* the run goes on: every algorithm configured after it is warmed up and
\* micro-benchmarked and the stability phase runs.
C2_MicroFailureAbortsOnlyThatAlgorithm ==
    (pc = "done" /\ interrupts = 0 /\ micro_failed # {})
        => /\ \A f \in micro_failed :
                \A i \in DOMAIN Items(config) :
                    i > IndexOf(f) =>
                        /\ LoggedFor("warmup", Items(config)[i].item.name)
                        /\ Items(config)[i].item.name \in Benchmarked(res_file.content)
           /\ Logged("stability")

\* C3: when the handle of one configured algorithm cannot be constructed,
\* every other configured algorithm, before or after it, is in
\* micro_benchmarks of the final result document.
C3_LoadFailureSkipsOnlyThatAlgorithm ==
    (pc = "done" /\ interrupts = 0 /\ faults = 0 /\ load_failed # {})
        => (ConfiguredNames(config) \ load_failed)
                \subseteq Benchmarked(res_file.content)

\* the phases of a run of configuration cfg in which nothing fails
ExpectedLog(cfg) ==
    LET n == Len(Items(cfg))
        tail == <<Event("stability", NoName),
                  Event("stability_completed", NoName),
                  Event("monitor_stop", NoName), Event("emit", NoName)>>
    IN  [i \in 1..(2 * n + 5) |->
            IF i = 1 THEN Event("monitor_start", NoName)
            ELSE IF i <= 2 * n + 1
                 THEN Event(IF i % 2 = 0 THEN "warmup" ELSE "micro",
                            Items(cfg)[i \div 2].item.name)
                 ELSE tail[i - (2 * n + 1)]]

IsPrefix(a, b) == Len(a) <= Len(b) /\ \A i \in DOMAIN a : a[i] = b[i]

\* C4: in a run without failures the phases come in the order: Monitor
\* start; per configured algorithm its warmup, then its micro-benchmarks;
\* the stability loop after the micro-benchmarks of all algorithms; Monitor
\* stop; emission of the result document. The Monitor is Running whenever a
\* warmup call, a timed trial or a stability operation is due.
C4_PhaseOrder ==
    NoFailures =>
        /\ IsPrefix(log, ExpectedLog(config))
        /\ pc = "done" => log = ExpectedLog(config)
        /\ pc \in OpPcs => MonitorState = "Running"

\* a run without failures of a configuration with a KEM and a signature
\* scheme has ended
C4_Witness ==
    /\ NoFailures
    /\ pc = "done"
    /\ Len(Items(config)) = 2
    /\ Len(data_points) > 0

\* C5: for one start() followed by one stop(), under every interleaving
\* with the sampling thread: once stop() is past its join the sampling
\* thread has terminated, stop() comes to its end, and the persisted
\* sequence is the buffer as it is from then on (read after the thread's
\* exit, nothing appended later).
C5_StopJoinsThenSaves ==
    /\ pc \in {"t_save", "t_done"} => ThreadTerminated
    /\ pc = "t_done" => (stop_event /\ (output_file /\ faults = 0 => saves = 1))
    /\ monitor_file.written =>
          (ThreadTerminated /\ monitor_file.content = data_points)

\* stop() right after start(): no sample was taken, the thread has exited
\* and the empty sequence was persisted
C5_Witness ==
    /\ pc = "t_done"
    /\ data_points = <<>>
    /\ mpc = "exited"
    /\ monitor_file = FileOf(<<>>)

\* C6: in every execution of run in which the Monitor was started, whether
\* the run completes, fails or is interrupted, the resource-sample sequence
\* is persisted exactly once and holds every sample appended.
C6_SamplesPersistedOnce ==
    (RunEnded /\ MonitorStarted) => (saves = 1 /\ monitor_file = FileOf(data_points))

\* C7: no failure of a per-tick read escapes the sampling loop: the loop
\* is left only by its stop check or by the NoSuchProcess break, never by
\* an exception.
C7_NoFailureEscapesLoop == mpc # "died"

\* the longest one handle's operation cycle can take
OneCycle == 3 * OpTime

\* C8: run_long_stability_test starts no pass once the clock has reached
\* start + d, and when it has returned the clock is past start + d by less
\* than a bound that is the same for every pool size (one handle's cycle).
C8_BoundedOvershoot ==
    /\ pass_start < end_time \/ pass_start = NoTime
    /\ Logged("stability_completed") => now < end_time + OneCycle

\* the keys the record of an entry must have
ExpectedKeys(alg_type, sizes) ==
    {<<"keygen">>}
    \cup {<<IF alg_type = "kem" THEN "encaps_size" ELSE "sign_size", sizes[i]>> :
            i \in DOMAIN sizes}
    \cup {<<IF alg_type = "kem" THEN "decaps_size" ELSE "verify_size", sizes[i]>> :
            i \in DOMAIN sizes}

\* a ResultRecord of an entry with a configured size list
GoodRecord(rec, it) ==
    it.item.has_sizes =>
        /\ DOMAIN rec = ExpectedKeys(it.alg_type, it.item.sizes)
        /\ \A k \in DOMAIN rec : rec[k].raised = None /\ rec[k].n = Iterations

\* C9: the record run_micro_benchmarks returns for an entry with sizes S,
\* all provider calls having succeeded, has exactly the keys keygen and
\* encaps_size_s / decaps_size_s (KEM) or sign_size_s / verify_size_s
\* (signature) for s in S, each a summary over exactly N samples.
C9_RecordKeysAndCounts ==
    /\ pc = "micro_return" => GoodRecord(results, Items(config)[idx])
    /\ \A name \in Benchmarked(full_results) :
          GoodRecord(full_results.micro_benchmarks[name],
                     Items(config)[IndexOf(name)])

\* the records of a KEM and of a signature scheme, both with two sizes,
\* are in the persisted document
C9_Witness ==
    /\ pc = "done"
    /\ res_file.written
    /\ Cardinality(Benchmarked(res_file.content)) = 2
    /\ \A i \in DOMAIN Items(config) :
          Items(config)[i].item.has_sizes /\ Len(Items(config)[i].item.sizes) = 2

\* C10: Signature.verify never raises and always returns a boolean.
C10_VerifyTotal ==
    pc = "v_returned" => vout \in {"True", "False"}

\* C11: get_algorithm raises whenever the name has no entry in
\* PQCRYPTO_MAPPING or the provider module cannot be imported, whatever the
\* implementation tag; a handle it returns has a loaded module behind it.
C11_ConstructionFailsWithoutProvider ==
    pc = "g_returned" =>
        /\ (\/ vin.name \notin DOMAIN PQCRYPTO_MAPPING
            \/ ModuleName(vin.name) \notin installed) => vout.raised
        /\ ~vout.raised => vout.handle.module = "module"

\* C12: for a configuration document in which warmup_iterations,
\* long_run_duration_seconds, sampling_interval_seconds or algorithms is
\* missing or malformed, run makes no warmup call and no timed trial.
C12_DefectiveConfigMeasuresNothing ==
    config.defect # "none" =>
        /\ w = 0
        /\ latA = <<>> /\ latB = <<>>
        /\ Benchmarked(full_results) = {}

\* the metadata of a result document
StartTime(doc) == doc.metadata.start_time
EndTime(doc) == doc.metadata.end_time

\* C13: every result document that run persists, after a normal run, a
\* failed one or an interrupted one, has a start_time and an end_time;
\* start_time is set once and never changed afterwards, and end_time is
\* stamped only after the Monitor has been stopped.
C13_StartAndEndStamped ==
    /\ [](res_file.written =>
            /\ StartTime(res_file.content) # NoTime
            /\ EndTime(res_file.content) # NoTime
            /\ StartTime(res_file.content) <= EndTime(res_file.content)
            /\ stop_event /\ ThreadTerminated)
    /\ [][StartTime(full_results) # NoTime =>
            StartTime(full_results') = StartTime(full_results)]_vars
    /\ [][EndTime(full_results') # EndTime(full_results) =>
            (stop_event /\ ThreadTerminated)]_vars

\* an interrupted stability phase: the document was persisted with an
\* end_time later than its start_time
C13_Witness ==
    /\ pc = "done"
    /\ Logged("interrupted")
    /\ res_file.written
    /\ EndTime(res_file.content) > StartTime(res_file.content)

\* C14: _calculate_stats of an empty sample sequence fails with an error
\* and returns no summary.
C14_EmptySampleSetFails ==
    (pc = "s_returned" /\ Len(vin) = 0) =>
        (vout.raised = "StatisticsError" /\ DOMAIN vout = {"raised"})

\* the call with the empty list has returned
C14_Witness == pc = "s_returned" /\ Len(vin) = 0

\* C15: for every non-empty sequence of non-negative durations the summary
\* has min <= median <= max, min <= mean <= max and stddev >= 0.
C15_SummaryOrdered ==
    (pc = "s_returned" /\ Len(vin) > 0) =>
        /\ vout.raised = None
        /\ RLe(vout.min_us, vout.median_us) /\ RLe(vout.median_us, vout.max_us)
        /\ RLe(vout.min_us, vout.avg_us) /\ RLe(vout.avg_us, vout.max_us)
        /\ RLe(Zero, vout.std_dev_us_squared)

\* a skewed list: the mean is above the median and below the maximum
C15_Witness ==
    /\ pc = "s_returned"
    /\ Len(vin) = 3
    /\ vout.raised = None
    /\ ~RLe(vout.avg_us, vout.median_us)
    /\ ~RLe(vout.max_us, vout.avg_us)
    /\ vout.std_dev_us_squared # Zero

\* the mean in seconds
MeanSeconds(summary) == RDiv(summary.avg_us, <<1000000, 1>>)

\* C16: for every non-empty sample sequence the throughput is 0 if and
\* only if the mean is 0, and otherwise it is the reciprocal of the mean
\* in seconds.
C16_ThroughputReciprocal ==
    (pc = "s_returned" /\ Len(vin) > 0) =>
        /\ (vout.throughput_ops_sec = Zero) <=> (vout.avg_us = Zero)
        /\ vout.avg_us # Zero =>
              vout.throughput_ops_sec = RDiv(<<1, 1>>, MeanSeconds(vout))

\* a list with a mean of three quarters of a microsecond, and a list of
\* zeros
C16_Witness ==
    /\ pc = "s_returned"
    /\ \/ vin = <<500, 1000>> /\ vout.throughput_ops_sec = <<4000000, 3>>
       \/ vin = <<0, 0>> /\ vout.throughput_ops_sec = Zero

\* C17 as stated: the 99th percentile of 1, 2, ..., 100 microseconds is 100.
C17_P99OfOneToHundredIs100 ==
    (pc = "s_returned" /\ vin = OneToHundred) => vout.p99_us = <<100, 1>>

\* C17 as amended: the 99th percentile of 1, 2, ..., 100 microseconds is
\* 99.01, the value at index 0.99 * 99 = 98.01, one hundredth of the way
\* from the 99th order statistic to the 100th.
C17_P99LinearInterpolation ==
    (pc = "s_returned" /\ vin = OneToHundred) => vout.p99_us = <<9901, 100>>

\* the call with 1, 2, ..., 100 microseconds has returned
C17_Witness == pc = "s_returned" /\ vin = OneToHundred /\ vout.n = 100

\* C18: get_summary returns the empty result for an empty buffer; for a
\* buffer with samples it returns the maxima of process CPU and resident
\* memory over the samples of the buffer and their averages, each average
\* at most the corresponding maximum; it leaves the buffer as it was.
C18_SummaryOverSamples ==
    pc = "u_returned" =>
        /\ data_points = vin
        /\ Len(data_points) = 0 => DOMAIN vout = {}
        /\ Len(data_points) > 0 =>
              /\ \A i \in DOMAIN data_points :
                    /\ data_points[i].cpu_percent <= vout.max_cpu_percent
                    /\ data_points[i].memory_rss <= vout.max_memory_rss
              /\ vout.avg_cpu_percent <= vout.max_cpu_percent
              /\ RLe(vout.avg_memory_rss, <<vout.max_memory_rss, 1>>)

\* a provider operation of the stability loop raises in this step
StabOpRaises == pc = "stab_cycle" /\ now' > now /\ faults' > faults

\* C19: an exception raised by an operation of one handle's cycle in the
\* stability loop is caught and logged and ends only that handle's cycle:
\* the pass goes on with the next handle, only an interrupt ends a pass
\* before its last handle, another pass starts whenever the clock is before
\* the end time, and no exception of the loop reaches the except clause of
\* run.
C19_StabilityErrorEndsOnlyThatCycle ==
    /\ [][StabOpRaises =>
            /\ pc' = "stab_cycle"
            /\ hidx' = hidx + 1 /\ cstep' = "keygen"
            /\ log' = Append(log, Event("stability_error", all_algs[hidx].name))]_vars
    /\ [][(pc = "stab_cycle" /\ hidx <= Len(all_algs) /\ pc' # "stab_cycle")
            => interrupts' > interrupts]_vars
    /\ [][(pc = "stab_check" /\ ClockBeforeEnd /\ pc' # "stab_check")
            => (pc' = "stab_cycle" \/ interrupts' > interrupts)]_vars
    /\ [](Logged("stability") => ~Logged("failed"))

\* the first handle of a pool of two has failed in the first pass and the
\* second handle is in its cycle in the same pass
C19_Witness ==
    /\ pc = "stab_cycle"
    /\ Len(all_algs) = 2
    /\ pass_start = 0
    /\ LoggedFor("stability_error", all_algs[1].name)
    /\ hidx = 2 /\ cstep = "opA"

\* C20: run_warmup calls keygen exactly warmup_iterations times however
\* many of the calls raise, passes no provider exception on to run (only an
\* interrupt ends it early), and changes no latency list, no record and no
\* result document.
C20_WarmupSwallowsAndCounts ==
    /\ [](pc = "warmup" => w <= config.warmup_iterations)
    /\ [][(pc = "warmup" /\ pc' # "warmup") =>
            \/ w = config.warmup_iterations /\ pc' = "micro_keygen"
            \/ interrupts' > interrupts]_vars
    /\ [][(pc = "warmup" /\ w' # w) =>
            /\ w' = w + 1
            /\ UNCHANGED <<latA, latB, results, full_results, res_file>>]_vars

\* the warmup of the first algorithm has made all its calls and one of
\* them raised (no failure of the monitor used up the fault)
C20_Witness ==
    /\ pc = "warmup"
    /\ idx = 1
    /\ config.warmup_iterations > 1
    /\ w = config.warmup_iterations
    /\ faults = 1
    /\ mpc \in {"check", "sample", "sleep"}
    /\ \A i \in DOMAIN data_points : data_points[i].cpu_freq_current

(***************************************************************************)
(* The objects the provider calls of run_micro_benchmarks are made with     *)
(***************************************************************************)
\* the ciphertext / signature that the call of encaps / sign in the same
\* trial of the same size returned
SameTrialToken == [size |-> call.size, trial |-> call.trial]
\* the configured entry of the handle the last call was made on
CalledItem == Items(config)[IndexOf(call.on)]
\* the positions of run inside run_micro_benchmarks
InMicro ==
    {"micro_keygen", "micro_keypair", "micro_opA", "micro_opB",
     "micro_size_done", "micro_return"}

\* C21: run_micro_benchmarks calls keygen Iterations times for the timed
\* trials and once more, untimed, and a phase that returns has made exactly
\* these Iterations + 1 calls; every encaps, decaps, sign and verify call
\* of the phase is made with the keypair of the last of them; the decaps of
\* a KEM gets the ciphertext that encaps returned in the same trial.
C21_OneKeypairAfterTimedKeygens ==
    /\ keygens <= Iterations + 1
    /\ pc = "micro_keypair" =>
          keygens = Iterations /\ results[<<"keygen">>].n = Iterations
    /\ pc = "micro_return" =>
          keygens = Iterations + 1 /\ results[<<"keygen">>].n = Iterations
    /\ call.op # "none" =>
          keygens = Iterations + 1 /\ keypair = keygens /\ call.key = keygens
    /\ (call.op = "opB" /\ CalledItem.alg_type = "kem") =>
          call.token = SameTrialToken

\* the micro-benchmarks of a KEM with MaxSizes sizes are about to return:
\* the last call was the decaps of the last trial of the last size
C21_Witness ==
    /\ pc = "micro_return"
    /\ alg.alg_type = "kem"
    /\ Len(Sizes) = MaxSizes
    /\ call.op = "opB"
    /\ call.size = MaxSizes /\ call.trial = Iterations
    /\ call.key = Iterations + 1

\* C22: for a signature scheme, run_micro_benchmarks generates one message
\* per configured message size, of that size's length, as many messages as
\* there are sizes when it returns; every sign and verify call of a size
\* gets the message of that size, and verify gets the signature that sign
\* returned in the same trial.
C22_OneMessagePerSize ==
    /\ (pc \in InMicro /\ alg.alg_type = "sign") =>
          /\ message.id <= Len(Sizes)
          /\ message.id > 0 => message.len = Sizes[message.id]
          /\ pc \in {"micro_opA", "micro_opB", "micro_size_done"} =>
                message.id = sizeIdx
          /\ pc = "micro_return" => message.id = Len(Sizes)
    /\ (call.op # "none" /\ CalledItem.alg_type = "sign") =>
          /\ call.message =
                [id |-> call.size, len |-> ParamsGet(CalledItem.item)[call.size]]
          /\ call.op = "opB" => call.token = SameTrialToken

\* the micro-benchmarks of a signature scheme with MaxSizes message sizes
\* are about to return: the last call was the verify of the last trial of
\* the last size, with the message of that size
C22_Witness ==
    /\ pc = "micro_return"
    /\ alg.alg_type = "sign"
    /\ Len(Sizes) = MaxSizes
    /\ call.op = "opB"
    /\ call.trial = Iterations
    /\ call.message = [id |-> MaxSizes, len |-> Sizes[MaxSizes]]

(***************************************************************************)
(* The sampling loop after the stop signal                                 *)
(***************************************************************************)
\* C23: once stop() has set the signal, what is left of the sampling loop
\* is a suffix of: finish the tick in progress, sleep one interval, look at
\* the signal, exit. The loop never begins a tick after the signal, so it
\* appends at most one further sample and waits for at most one sleep, and
\* the thread does terminate, which is what the join of stop() waits for.
\* The reads of a tick are taken to be instantaneous.
C23_LoopExitsAfterOneSleep ==
    /\ [][stop_event =>
            /\ mpc = "check" => mpc' \in {"check", "exited"}
            /\ mpc = "sleep" => mpc' \in {"sleep", "check"}
            /\ mpc = "sample" => mpc' \in {"sample", "sleep", "exited", "died"}
            /\ ThreadTerminated => mpc' = mpc
            /\ data_points' # data_points =>
                  /\ mpc = "sample" /\ mpc' = "sleep"
                  /\ Len(data_points') = Len(data_points) + 1]_vars
    /\ (stop_event ~> ThreadTerminated)

\* stop() has set the signal right after the loop looked at it: the caller
\* is at the join, the thread is in the tick whose sample it will still
\* append, with a whole sleep to follow
C23_Witness ==
    /\ pc = "t_join"
    /\ stop_event
    /\ mpc = "sample"
    /\ data_points = <<>>

(***************************************************************************)
(* The handles of a run                                                    *)
(***************************************************************************)
\* C24: in a run, no two handles are constructed for the same configured
\* entry, and every handle of the stability pool is a handle that the for
\* loops of run constructed for the warmup and the micro-benchmarks of its
\* entry (the configured names are distinct).
C24_OneHandlePerSpec ==
    /\ \A i, j \in DOMAIN constructed :
          constructed[i].name = constructed[j].name => i = j
    /\ \A i \in DOMAIN all_algs : constructed[all_algs[i].id].by = "run"

(***************************************************************************)
(* The records of the result document                                      *)
(***************************************************************************)
\* the record of a whole micro-benchmark phase of the entry it: keygen and
\* the two operations of every size, each summarised over Iterations trials
CompleteRecord(rec, it) ==
    /\ DOMAIN rec = ExpectedKeys(it.alg_type, ParamsGet(it.item))
    /\ \A k \in DOMAIN rec : rec[k].raised = None /\ rec[k].n = Iterations

\* C25: micro_benchmarks changes only when run_micro_benchmarks has
\* returned for an algorithm, and then by gaining the complete record of
\* that algorithm under a name it did not hold: no entry is ever modified
\* or removed, and none is stored for a phase that raised or was
\* interrupted. A result document that is written holds exactly these
\* entries. (The configured names are distinct.)
C25_OnlyCompletedRecordsStored ==
    /\ [][full_results'.micro_benchmarks # full_results.micro_benchmarks =>
            /\ pc = "micro_return"
            /\ alg.name \notin Benchmarked(full_results)
            /\ CompleteRecord(results, Items(config)[idx])
            /\ full_results'.micro_benchmarks =
                  DictSet(full_results.micro_benchmarks, alg.name, results)]_vars
    /\ [](\A name \in micro_failed : name \notin Benchmarked(full_results))
    /\ [](res_file.written =>
            res_file.content.micro_benchmarks = full_results.micro_benchmarks)

\* the second of two algorithms raised after its keygen entry was computed:
\* the persisted document holds the record of the first and nothing of the
\* second
C25_Witness ==
    /\ pc = "done"
    /\ res_file.written
    /\ Len(Items(config)) = 2
    /\ micro_failed = {Items(config)[2].item.name}
    /\ <<"keygen">> \in DOMAIN results
    /\ Benchmarked(res_file.content) = {Items(config)[1].item.name}
    /\ CompleteRecord(res_file.content.micro_benchmarks[Items(config)[1].item.name],
                      Items(config)[1])

(***************************************************************************)
(* A KeyboardInterrupt in the warmup and in the stability loop             *)
(***************************************************************************)
\* the positions of run after its try block
AfterTry ==
    {"stop_set", "stop_join", "stop_save", "stamp_end", "persist", "done",
     "aborted"}

\* C26: no handler of a phase absorbs a KeyboardInterrupt: once one was
\* delivered, run is past its try block, where no provider operation is
\* called. After the interrupt is logged only the finalize steps follow; a
\* warmup that was interrupted is not followed by the micro-benchmarks of
\* its algorithm, and a stability loop that was interrupted does not
\* complete.
C26_InterruptLeavesPhase ==
    /\ interrupts > 0 => pc \in AfterTry
    /\ \A i \in DOMAIN log : log[i][1] = "interrupted" =>
          /\ \A j \in DOMAIN log : j > i => log[j][1] \in {"monitor_stop", "emit"}
          /\ (i > 1 /\ log[i - 1][1] = "warmup") =>
                /\ ~LoggedFor("micro", log[i - 1][2])
                /\ log[i - 1][2] \notin Benchmarked(full_results)
          /\ Logged("stability") => ~Logged("stability_completed")

\* the stability loop was interrupted in the middle of the first handle's
\* cycle, after its keygen: run is at the first finalize step
C26_Witness ==
    /\ pc = "stop_set"
    /\ log[Len(log)] = Event("interrupted", NoName)
    /\ Logged("stability")
    /\ Len(all_algs) >= 1
    /\ hidx = 1 /\ cstep = "opA"

====
